---- MODULE Spec2Model ----
(***************************************************************************)
(* Model of the portfolio backend (src/server.js): the User collection,    *)
(* login and session tokens, the password-reset flow, the JSON files of    *)
(* the data directory with the endpoints that read and write them, and the *)
(* message archival job (src/utils/archiveMessages.js).                    *)
(*                                                                         *)
(* Time is Date.now() in milliseconds, scaled down: MsPerSec model         *)
(* milliseconds make a second and HourSec model seconds make an hour.      *)
(* jsonwebtoken stamps tokens in whole seconds (iat = floor(ms / 1000)),   *)
(* the reset expiry is kept in milliseconds, an ObjectId carries the       *)
(* second of its creation.                                                 *)
(***************************************************************************)
EXTENDS Integers, Sequences, FiniteSets, TLC

VARIABLES now, users, sessions, rq, rp, resp, unused, firstMail, fresh,
          files, stats, archives, http, job, acks

vars == <<now, users, sessions, rq, rp, resp, unused, firstMail, fresh,
          files, stats, archives, http, job, acks>>

\* The data directory and the handlers that work on it.
fileVars == <<files, stats, archives, http, job, acks>>

(* ------------------------------ bounds -------------------------------- *)
MaxTime == 4
MaxUsers == 2
MaxProcs == 2
MaxSessions == 1
MaxTimeAccounts == 1
MaxTimeFiles == 2
MaxTimeArchive == 1
MaxItems == 2
MaxMonths == 1
MaxYears == 1
MaxLen == 2
MaxRounds == 2

(* ------------------------- program constants -------------------------- *)
MsPerSec == 2
HourSec == 1
HourMs == HourSec * MsPerSec
ThirtyDaysMs == 30 * 24 * HourMs
YearMs == 365 * 24 * HourMs
JWT_SECRET == "your-secret-key"

Sec(ms) == ms \div MsPerSec

(* ----------------------------- strings -------------------------------- *)
\* A string is a sequence of one-character strings.
Lower(c) == CASE c = "A" -> "a" [] c = "B" -> "b" [] c = "C" -> "c" [] OTHER -> c

ToLowerCase(s) == [i \in 1..Len(s) |-> Lower(s[i])]

DefaultEmail == <<"a", ".", "c">>

\* The addresses an account can be given through the settings form.
EmailValues == {DefaultEmail, <<"a", "b", "c">>}

\* The strings a client can send as the email of a reset request.
EmailInputs ==
    EmailValues \cup
    { <<>>, <<"A", ".", "C">>, <<"A", "B", "C">>, <<"c">>,
      <<".", "*">>, <<"a", "*", "b", "c">>, <<"*", "a">>, <<"(">> }

UsernameInputs == {"admin", "root", "nouser", ""}
PasswordInputs == {"admin123", "pw1", "wrong", ""}

(* ------------------------- regular expressions ------------------------ *)
\* new RegExp(p) throws a SyntaxError on an unbalanced "(" and on a "*"
\* with nothing to repeat.
ValidRegex(p) ==
    /\ \A i \in 1..Len(p) : p[i] # "("
    /\ \A i \in 1..Len(p) : p[i] = "*" => (i > 1 /\ p[i-1] # "*")

AtomMatch(a, c) == a = "." \/ Lower(a) = Lower(c)

\* s matches /^p$/i, for patterns of literals, "." and "x*".
RECURSIVE RegexTest(_, _)
RegexTest(p, s) ==
    IF p = <<>> THEN s = <<>>
    ELSE IF Len(p) >= 2 /\ p[2] = "*"
    THEN \/ RegexTest(SubSeq(p, 3, Len(p)), s)
         \/ (s # <<>> /\ AtomMatch(p[1], s[1]) /\ RegexTest(p, Tail(s)))
    ELSE s # <<>> /\ AtomMatch(p[1], s[1]) /\ RegexTest(Tail(p), Tail(s))

(* ------------------------------ bcrypt -------------------------------- *)
BcryptHash(x) == [bcrypt |-> x]

BcryptCompare(x, h) == h = BcryptHash(x)

(* --------------------------- jsonwebtoken ----------------------------- *)
\* jwt.sign(payload, secret, {expiresIn: '1h'}) at time t: the payload gets
\* iat and exp in seconds and the token is signed with the secret.
JwtSign(payload, secret, t) ==
    [payload |-> payload, iat |-> Sec(t), exp |-> Sec(t) + HourSec, sig |-> secret]

\* A verification that does not look at exp.
JwtVerifyIgnoreExpiration(token, secret, t) == token.sig = secret

\* jwt.verify(token, secret) at time t succeeds iff the signature is the
\* secret's and the clock in seconds is below exp.
JwtVerify(token, secret, t) == token.sig = secret /\ Sec(t) < token.exp

\* token.substring(0, 64): the 36 characters of the encoded header, the
\* dot, and 27 base64url characters of the payload.  They cover
\* {"userId":" and the first nine hex digits of the ObjectId (its creation
\* second and the first digit of the creating process's random value), and
\* nothing of email, iat, exp or the signature.  An ObjectId is modelled as
\* [ts, hi, lo]: ts and hi are the part inside these 64 characters, lo the
\* rest.
Substring64(token) ==
    [alg |-> "HS256", ts |-> token.payload.userId.ts, hi |-> token.payload.userId.hi]

(* ------------------------------ state --------------------------------- *)
\* now        Date.now()
\* users      the User collection, in insertion order
\* sessions   the session tokens clients hold
\* rq         the request-password-reset handler in flight
\* rp         the reset-password handlers in flight
\* resp       the HTTP response sent by the last step
\* History, for the statements about the reset flow:
\* unused     per account, the reset requests that stored a token minus the
\*            reset-password calls that returned success (kept down to -1)
\* firstMail  the first reset mail delivered: account, link, request time
\* fresh      the account whose link was delivered with no reset request and
\*            no password reset since (0: none)

NoResp == [op |-> "none", status |-> 0, kind |-> "", user |-> 0, token |-> {}]

Response(op, status, kind, user) ==
    [op |-> op, status |-> status, kind |-> kind, user |-> user, token |-> {}]

RqIdle == [pc |-> "idle"]
RpIdle == [pc |-> "idle"]

Procs == 1..MaxProcs
UserIdx == 1..Len(users)
Slots == 1..(MaxUsers + 1)

\* The value of the creating process that an ObjectId carries.  The server's
\* value is fixed; a run of init-db.js has another one, which agrees with the
\* server's in the part inside the first 64 characters of a token or does not.
ServerProcess == [hi |-> 0, lo |-> 0]
ProcessValues == {[hi |-> 0, lo |-> 1], [hi |-> 1, lo |-> 0]}

ObjectId(t, proc) == [ts |-> Sec(t), hi |-> proc.hi, lo |-> proc.lo]

NewUser(id, username, password, email) ==
    [id |-> id, username |-> username, password |-> password, email |-> email,
     settings |-> [theme |-> "dark"], resetToken |-> {}, resetTokenExpires |-> {}]

InitHistory ==
    /\ unused = [i \in Slots |-> 0]
    /\ firstMail = {}
    /\ fresh = 0

(* --------------------------- the data directory ----------------------- *)
\* files      the collection files of the data directory
\* stats      stats.json
\* archives   message-archive-<year>.json, per year
\* http       the handlers of requests on the data directory in flight
\* job        the run of the archival job in flight
\* acks       history: the records that a create request answered with
\*            success
\*
\* What a file holds: nothing (no such file), text that JSON.parse rejects,
\* an array of records, or the object {skills: [...]}.
Missing == [kind |-> "missing", items |-> <<>>]
Malformed == [kind |-> "malformed", items |-> <<>>]
Array(s) == [kind |-> "array", items |-> s]
SkillsObject(s) == [kind |-> "object", items |-> s]

FileNames == {"projects.json", "education.json", "skills.json", "messages.json",
              "users.json"}
Years == 0..MaxYears

\* stats.json: an object whose fields are each present (the set holding the
\* value) or absent (the empty set).  EmptyObject is {}, DefaultStats the
\* object the handlers of GET /api/stats and POST /api/stats/visitor start
\* from when the file cannot be loaded.
Months == 0..11
\* NaN of a counter, which is never negative otherwise.
NaN == 0 - 1
StatsObject(visitors, cvViews, cvDownloads, messageCount, monthlyVisitors) ==
    [kind |-> "object", visitors |-> visitors, cvViews |-> cvViews,
     cvDownloads |-> cvDownloads, messageCount |-> messageCount,
     monthlyVisitors |-> monthlyVisitors]
EmptyObject == StatsObject({}, {}, {}, {}, {})
DefaultStats == StatsObject({0}, {0}, {0}, {0}, {[m \in Months |-> 0]})
StatsMissing == [EmptyObject EXCEPT !.kind = "missing"]

HttpIdle == [pc |-> "idle"]
JobIdle == [pc |-> "idle"]

\* No request and no job is running.
InitHandlers ==
    /\ http = [p \in Procs |-> HttpIdle]
    /\ job = JobIdle
    /\ acks = {}

\* A fresh deployment: no data file exists yet.
InitData ==
    /\ files = [f \in FileNames |-> Missing]
    /\ stats = StatsMissing
    /\ archives = [y \in Years |-> Missing]

InitAccounts ==
    /\ now = 0
    /\ users = <<>>
    /\ sessions = {}
    /\ rq = RqIdle
    /\ rp = [p \in Procs |-> RpIdle]
    /\ resp = NoResp
    /\ InitHistory

Init ==
    /\ InitAccounts
    /\ InitData
    /\ InitHandlers

\* Time passes, up to a bound.
TickUntil(limit) ==
    /\ now < limit
    /\ now' = now + 1
    /\ resp' = NoResp
    /\ UNCHANGED <<users, sessions, rq, rp>>

Tick == TickUntil(MaxTime)

(* ------------------------- account creation --------------------------- *)
\* A boot that sets the collection back to the default account.
initializeDefaultUserAfresh ==
    /\ users' = <<NewUser(ObjectId(now, ServerProcess), "admin",
                          BcryptHash("admin123"), DefaultEmail)>>
    /\ resp' = NoResp
    /\ UNCHANGED <<now, sessions, rq, rp>>

\* Server boot: the default account is created when the collection is empty.
initializeDefaultUser ==
    /\ users' = IF Len(users) = 0
                THEN <<NewUser(ObjectId(now, ServerProcess), "admin",
                               BcryptHash("admin123"), DefaultEmail)>>
                ELSE users
    /\ resp' = NoResp
    /\ UNCHANGED <<now, sessions, rq, rp>>

\* init-db.js: creates the admin account when no account is named admin.  The
\* insert fails on the unique email index when the default address is taken.
initializeDatabase(proc) ==
    /\ Len(users) < MaxUsers
    /\ LET adminExists == \E i \in UserIdx : users[i].username = "admin"
           emailTaken == \E i \in UserIdx : users[i].email = DefaultEmail
           id == ObjectId(now, proc)
       IN  /\ \A i \in UserIdx : users[i].id # id
           /\ users' = IF ~adminExists /\ ~emailTaken
                       THEN Append(users, NewUser(id, "admin", BcryptHash("admin123"),
                                                  DefaultEmail))
                       ELSE users
    /\ resp' = NoResp
    /\ UNCHANGED <<now, sessions, rq, rp>>

(* ------------------------------- login -------------------------------- *)
SessionToken(u, t) == JwtSign([userId |-> u.id, username |-> u.username], JWT_SECRET, t)

\* The handler without the password comparison.
LoginAnswerNoCompare(us, t, username, password) ==
    IF username = "" \/ password = ""
    THEN Response("login", 400, "required", 0)
    ELSE LET found == {i \in 1..Len(us) : us[i].username = username}
         IN  IF found = {}
             THEN Response("login", 401, "username_not_found", 0)
             ELSE LET i == CHOOSE j \in found : TRUE
                  IN  [Response("login", 200, "ok", i)
                          EXCEPT !.token = {SessionToken(us[i], t)}]

\* The answer of POST /api/login at time t when the collection is us.
LoginAnswer(us, t, username, password) ==
    IF username = "" \/ password = ""
    THEN Response("login", 400, "required", 0)
    ELSE LET found == {i \in 1..Len(us) : us[i].username = username}
         IN  IF found = {}
             THEN Response("login", 401, "username_not_found", 0)
             ELSE LET i == CHOOSE j \in found : TRUE
                  IN  IF ~BcryptCompare(password, us[i].password)
                      THEN Response("login", 401, "incorrect_password", i)
                      ELSE [Response("login", 200, "ok", i)
                               EXCEPT !.token = {SessionToken(us[i], t)}]

LoginResponse(username, password) == LoginAnswer(users, now, username, password)

\* The client keeps the token of a successful login (and at most MaxSessions
\* tokens).
Login(username, password) ==
    /\ resp' = LoginResponse(username, password)
    /\ sessions' = IF resp'.status = 200
                   THEN IF Cardinality(sessions \cup resp'.token) <= MaxSessions
                        THEN sessions \cup resp'.token
                        ELSE resp'.token
                   ELSE sessions
    /\ UNCHANGED <<now, users, rq, rp>>

(* -------------------------- authenticateToken ------------------------- *)
\* A middleware that only looks for a token in the header.
authenticateTokenPresent(bearer) == IF bearer = {} THEN 401 ELSE 200

\* bearer: the set holding the token of the Authorization header, if any.
authenticateToken(bearer) ==
    IF bearer = {} THEN 401
    ELSE IF \E tok \in bearer : JwtVerify(tok, JWT_SECRET, now) THEN 200
    ELSE 403

Forged(tok) == [tok EXCEPT !.sig = "forged"]

Bearers == {{}} \cup {{tok} : tok \in sessions} \cup {{Forged(tok)} : tok \in sessions}

FindById(id) == {i \in UserIdx : users[i].id = id}

\* GET /api/user/settings
GetUserSettings(bearer) ==
    /\ LET auth == authenticateToken(bearer)
           r == IF auth # 200
                THEN Response("getSettings", auth, "auth", 0)
                ELSE LET tok == CHOOSE t \in bearer : TRUE
                         found == FindById(tok.payload.userId)
                     IN  IF found = {}
                         THEN Response("getSettings", 404, "user_not_found", 0)
                         ELSE Response("getSettings", 200, "ok", CHOOSE i \in found : TRUE)
       IN  resp' = [r EXCEPT !.token = bearer]
    /\ UNCHANGED <<now, users, sessions, rq, rp>>

\* PUT /api/user/settings: "" and <<>> stand for a field the body leaves out.
\* user.save() fails on the unique indexes of username and email.
PutUserSettings(bearer, username, email, password) ==
    /\ LET auth == authenticateToken(bearer)
       IN  IF auth # 200
           THEN /\ resp' = Response("putSettings", auth, "auth", 0)
                /\ users' = users
           ELSE LET tok == CHOOSE t \in bearer : TRUE
                    found == FindById(tok.payload.userId)
                IN  IF found = {}
                    THEN /\ resp' = Response("putSettings", 404, "user_not_found", 0)
                         /\ users' = users
                    ELSE LET i == CHOOSE j \in found : TRUE
                             u == users[i]
                             v == [u EXCEPT
                                     !.username = IF username # "" THEN username ELSE @,
                                     !.email = IF email # <<>> THEN ToLowerCase(email) ELSE @,
                                     !.password = IF password # ""
                                                  THEN BcryptHash(password) ELSE @]
                             dup == \E j \in UserIdx \ {i} :
                                       \/ users[j].username = v.username
                                       \/ users[j].email = v.email
                         IN  IF dup
                             THEN /\ resp' = Response("putSettings", 500, "server_error", i)
                                  /\ users' = users
                             ELSE /\ resp' = Response("putSettings", 200, "ok", i)
                                  /\ users' = [users EXCEPT ![i] = v]
    /\ UNCHANGED <<now, sessions, rq, rp>>

(* ------------------- POST /api/auth/request-password-reset ------------ *)
ResetToken(u, t) == JwtSign([userId |-> u.id, email |-> u.email], JWT_SECRET, t)

\* User.findOne({email: {$regex: new RegExp(`^${email}$`, 'i')}}): the
\* accounts the query matches.  findOne returns one of them, in an order
\* the database does not specify.
FindByEmailRegex(email) == {i \in UserIdx : RegexTest(email, users[i].email)}

\* The handler up to user.save().
RequestPasswordReset(email) ==
    /\ rq.pc = "idle"
    /\ IF email = <<>>
       THEN /\ resp' = Response("requestReset", 400, "email_required", 0)
            /\ UNCHANGED <<users, rq>>
       ELSE IF ~ValidRegex(email)
       THEN /\ resp' = Response("requestReset", 500, "server_error", 0)
            /\ UNCHANGED <<users, rq>>
       ELSE IF FindByEmailRegex(email) = {}
       THEN /\ resp' = Response("requestReset", 404, "no_account", 0)
            /\ UNCHANGED <<users, rq>>
       ELSE \E i \in FindByEmailRegex(email) :
              LET resetToken == ResetToken(users[i], now)
                  hashedToken == BcryptHash(resetToken)
              IN  /\ users' = [users EXCEPT ![i].resetToken = {hashedToken},
                                            ![i].resetTokenExpires = {now + HourMs}]
                  /\ rq' = [pc |-> "mail", to |-> email, user |-> i, at |-> now,
                            link |-> Substring64(resetToken)]
                  /\ resp' = NoResp
    /\ UNCHANGED <<now, sessions, rp>>

\* transporter.sendMail resolves or rejects; the handler answers.
SendResetMail(ok) ==
    /\ rq.pc = "mail"
    /\ rq' = RqIdle
    /\ resp' = IF ok THEN Response("requestReset", 200, "sent", rq.user)
                     ELSE Response("requestReset", 500, "mail_failed", rq.user)
    /\ UNCHANGED <<now, users, sessions, rp>>

(* ----------------------- POST /api/auth/reset-password ---------------- *)
EmptyToken == [alg |-> "", ts |-> 0, hi |-> 0]
GarbageToken == [alg |-> "none", ts |-> 0, hi |-> 0]

\* The link of account i: the first 64 characters of a token signed for it.
Link(i) == Substring64(ResetToken(users[i], now))

\* User.find({resetToken: {$exists: true}, resetTokenExpires: {$gt: new Date()}})
ActiveResetUsers ==
    {i \in UserIdx : /\ users[i].resetToken # {}
                     /\ \E e \in users[i].resetTokenExpires : e > now}

\* What the handler reads of a document it has loaded.
Document(u) ==
    [id |-> u.id, email |-> u.email, resetToken |-> u.resetToken,
     resetTokenExpires |-> u.resetTokenExpires]

\* A comparison that every candidate passes.
MatchingAny(cands, token) == DOMAIN cands

\* The candidates whose regenerated token has the presented first 64 characters.
Matching(cands, token) ==
    {i \in DOMAIN cands : Substring64(ResetToken(cands[i], now)) = token}

\* The check on the matched document before the password is changed.
Expired(u) ==
    \/ u.resetToken = {}
    \/ u.resetTokenExpires = {}
    \/ \E e \in u.resetTokenExpires : now > e

\* The handler up to the result of User.find.
ResetPasswordFind(p, token, password) ==
    /\ rp[p].pc = "idle"
    /\ IF token = EmptyToken \/ password = ""
       THEN /\ resp' = Response("resetPassword", 400, "required", 0)
            /\ rp' = rp
       ELSE /\ resp' = NoResp
            /\ rp' = [rp EXCEPT ![p] =
                        [pc |-> "found", token |-> token, password |-> password,
                         users |-> [i \in ActiveResetUsers |-> Document(users[i])]]]
    /\ UNCHANGED <<now, users, sessions, rq>>

\* The loop over the candidates and the expiry check, up to bcrypt.hash.  The
\* loop stops at the first candidate that matches, in the order of User.find,
\* which the database does not specify.
ResetPasswordMatch(p) ==
    /\ rp[p].pc = "found"
    /\ LET matching == Matching(rp[p].users, rp[p].token)
       IN  IF matching = {}
           THEN /\ resp' = Response("resetPassword", 400, "invalid_or_expired", 0)
                /\ rp' = [rp EXCEPT ![p] = RpIdle]
           ELSE \E m \in matching :
                  IF Expired(rp[p].users[m])
                  THEN /\ resp' = Response("resetPassword", 400, "token_expired", m)
                       /\ rp' = [rp EXCEPT ![p] = RpIdle]
                  ELSE /\ resp' = NoResp
                       /\ rp' = [rp EXCEPT ![p] =
                                   [pc |-> "hashing", token |-> rp[p].token,
                                    password |-> rp[p].password, matchedUser |-> m]]
    /\ UNCHANGED <<now, users, sessions, rq>>

\* A save that leaves the reset token on the document.
ResetPasswordSaveKeepToken(p) ==
    /\ rp[p].pc = "hashing"
    /\ LET m == rp[p].matchedUser
       IN  /\ users' = [users EXCEPT ![m].password = BcryptHash(rp[p].password)]
           /\ resp' = Response("resetPassword", 200, "ok", m)
    /\ rp' = [rp EXCEPT ![p] = RpIdle]
    /\ UNCHANGED <<now, sessions, rq>>

\* user.save() of the matched document and the success response.
ResetPasswordSave(p) ==
    /\ rp[p].pc = "hashing"
    /\ LET m == rp[p].matchedUser
       IN  /\ users' = [users EXCEPT ![m].password = BcryptHash(rp[p].password),
                                     ![m].resetToken = {},
                                     ![m].resetTokenExpires = {}]
           /\ resp' = Response("resetPassword", 200, "ok", m)
    /\ rp' = [rp EXCEPT ![p] = RpIdle]
    /\ UNCHANGED <<now, sessions, rq>>

(* ------------------------------ history ------------------------------- *)
\* What a step of the program is, read off its two states.
Stored == rq.pc = "idle" /\ rq'.pc = "mail"
Delivered == resp'.op = "requestReset" /\ resp'.status = 200
ResetDone == resp'.op = "resetPassword" /\ resp'.status = 200

\* Each specification keeps the history its statements read.
History(counting, first, latest) ==
    /\ unused' = IF ~counting THEN unused
                 ELSE IF Stored THEN [unused EXCEPT ![rq'.user] = @ + 1]
                 ELSE IF ResetDone /\ unused[resp'.user] >= 0
                 THEN [unused EXCEPT ![resp'.user] = @ - 1]
                 ELSE unused
    /\ firstMail' = IF first /\ Delivered /\ firstMail = {}
                    THEN {[user |-> rq.user, link |-> rq.link, at |-> rq.at]}
                    ELSE firstMail
    /\ fresh' = IF ~latest THEN fresh
                ELSE IF Delivered THEN rq.user
                ELSE IF Stored \/ ResetDone THEN 0
                ELSE fresh
    /\ UNCHANGED fileVars

(* --------------------------- specifications --------------------------- *)
\* The tokens and passwords a client presents to reset-password.
TokenInputs == {EmptyToken, GarbageToken} \cup {Link(i) : i \in UserIdx}
NewPasswordInputs == {"", "admin123", "pw1"}

\* Accounts, login and sessions.
NextLogin ==
    \/ Tick /\ History(FALSE, FALSE, FALSE)
    \/ initializeDefaultUser /\ History(FALSE, FALSE, FALSE)
    \/ \E proc \in ProcessValues : initializeDatabase(proc) /\ History(FALSE, FALSE, FALSE)
    \/ \E u \in UsernameInputs, pw \in PasswordInputs :
          Login(u, pw) /\ History(FALSE, FALSE, FALSE)
    \/ \E b \in Bearers : GetUserSettings(b) /\ History(FALSE, FALSE, FALSE)
    \/ \E b \in Bearers, u \in {"", "root"}, e \in {<<>>, <<"A", "B", "C">>},
          pw \in {"", "pw1"} :
          PutUserSettings(b, u, e, pw) /\ History(FALSE, FALSE, FALSE)

SpecLogin == Init /\ [][NextLogin]_vars

\* The reset flow of the default account, one reset-password call at a time.
Next ==
    \/ Tick /\ History(FALSE, TRUE, FALSE)
    \/ initializeDefaultUser /\ History(FALSE, TRUE, FALSE)
    \/ \E e \in EmailInputs : RequestPasswordReset(e) /\ History(FALSE, TRUE, FALSE)
    \/ \E ok \in BOOLEAN : SendResetMail(ok) /\ History(FALSE, TRUE, FALSE)
    \/ \E t \in TokenInputs, pw \in NewPasswordInputs :
          ResetPasswordFind(1, t, pw) /\ History(FALSE, TRUE, FALSE)
    \/ ResetPasswordMatch(1) /\ History(FALSE, TRUE, FALSE)
    \/ ResetPasswordSave(1) /\ History(FALSE, TRUE, FALSE)

Spec == Init /\ [][Next]_vars

\* The reset flow of the default account with reset-password calls running
\* concurrently, all presenting the account's link.
NextRace ==
    \/ Tick /\ History(TRUE, FALSE, FALSE)
    \/ initializeDefaultUser /\ History(TRUE, FALSE, FALSE)
    \/ /\ RequestPasswordReset(DefaultEmail) /\ History(TRUE, FALSE, FALSE)
       /\ \A i \in Slots : unused'[i] <= MaxProcs
    \/ \E ok \in BOOLEAN : SendResetMail(ok) /\ History(TRUE, FALSE, FALSE)
    \/ \E p \in Procs, i \in UserIdx :
          ResetPasswordFind(p, Link(i), "pw1") /\ History(TRUE, FALSE, FALSE)
    \/ \E p \in Procs : ResetPasswordMatch(p) /\ History(TRUE, FALSE, FALSE)
    \/ \E p \in Procs : ResetPasswordSave(p) /\ History(TRUE, FALSE, FALSE)

SpecRace == Init /\ [][NextRace]_vars

\* Two accounts: the default account renamed through the settings form and
\* the admin account a run of init-db.js then adds, and the reset flow of both.
NextAccounts ==
    \/ TickUntil(MaxTimeAccounts) /\ History(FALSE, FALSE, TRUE)
    \/ initializeDefaultUser /\ History(FALSE, FALSE, TRUE)
    \/ \E proc \in ProcessValues : initializeDatabase(proc) /\ History(FALSE, FALSE, TRUE)
    \/ Login("admin", "admin123") /\ History(FALSE, FALSE, TRUE)
    \/ \E tok \in sessions :
          PutUserSettings({tok}, "root", <<"A", "B", "C">>, "") /\ History(FALSE, FALSE, TRUE)
    \/ \E e \in EmailValues : RequestPasswordReset(e) /\ History(FALSE, FALSE, TRUE)
    \/ \E ok \in BOOLEAN : SendResetMail(ok) /\ History(FALSE, FALSE, TRUE)
    \/ \E t \in TokenInputs \ {EmptyToken}, pw \in {"admin123", "pw1"} :
          ResetPasswordFind(1, t, pw) /\ History(FALSE, FALSE, TRUE)
    \/ ResetPasswordMatch(1) /\ History(FALSE, FALSE, TRUE)
    \/ ResetPasswordSave(1) /\ History(FALSE, FALSE, TRUE)

SpecAccounts == Init /\ [][NextAccounts]_vars

(* ------------------------ the password-reset flow --------------------- *)
\* Steps of reset-password call p, read off the two states of a step.
Answered(p) == rp[p].pc = "found" /\ rp'[p].pc = "idle"
Accepted(p) == rp[p].pc = "found" /\ rp'[p].pc = "hashing"

EqualsIgnoringCase(a, b) == ToLowerCase(a) = ToLowerCase(b)

\* C1: when the link of the last reset mail, delivered for account A with no
\* reset request and no password reset since, is presented before A's stored
\* expiry, the call selects account A and goes on to change its password.
C1_LinkSelectsItsAccount ==
    [][(/\ rp[1].pc = "found" /\ rp'[1].pc # "found"
        /\ fresh # 0
        /\ rp[1].token = Link(fresh)
        /\ fresh \in DOMAIN rp[1].users
        /\ rp[1].users[fresh] = Document(users[fresh])
        /\ \E e \in users[fresh].resetTokenExpires : now < e)
       => (rp'[1].pc = "hashing" /\ rp'[1].matchedUser = fresh)]_vars

\* C2: a reset-password call whose token is the link of an account whose
\* stored resetTokenExpires has passed is answered with TokenExpired, and the
\* accounts stay as they are.
C2_ExpiredTokenAnswer ==
    [][(/\ Answered(1)
        /\ \E i \in UserIdx : /\ rp[1].token = Link(i)
                              /\ \E e \in users[i].resetTokenExpires : e < now)
       => (resp'.kind = "token_expired" /\ users' = users)]_vars

\* C3: a reset request whose email equals, ignoring case, the stored email of
\* no account is answered with 404 and changes no account.
C3_UnknownEmailNotFound ==
    [][\A email \in EmailInputs \ {<<>>} :
          (/\ \A i \in UserIdx : ~EqualsIgnoringCase(email, users[i].email)
           /\ RequestPasswordReset(email))
          => (resp'.status = 404 /\ users' = users)]_vars

\* C4: a reset request whose email equals, ignoring case, the stored email of
\* an account stores on that account, and on no other, the hash of the token
\* minted for it and an expiry one hour after the request, before the mail is
\* sent.
C4_StoredOnRequestedAccount ==
    [][\A email \in EmailValues :
          (/\ \E i \in UserIdx : EqualsIgnoringCase(email, users[i].email)
           /\ RequestPasswordReset(email))
          => \E i \in UserIdx :
                /\ EqualsIgnoringCase(email, users[i].email)
                /\ rq'.pc = "mail" /\ rq'.user = i
                /\ users'[i].resetToken = {BcryptHash(ResetToken(users[i], now))}
                /\ users'[i].resetTokenExpires = {now + HourMs}
                /\ \A j \in UserIdx \ {i} : users'[j] = users[j]]_vars

\* C5: for every account, the reset-password calls that returned success never
\* outnumber the reset requests that stored a token for it.
C5_TokenUsedOnce == \A i \in Slots : unused[i] >= 0

\* C6: the link of a mail whose request was made at time T0 is not accepted
\* after T0 + 1 hour.
C6_LinkDiesAfterAnHour ==
    [][Accepted(1) =>
          \A m \in firstMail : rp[1].token = m.link => now <= m.at + HourMs]_vars

\* C7: a reset-password call whose token is the first 64 characters of the
\* regenerated token of no candidate account is answered with 400
\* InvalidOrExpiredToken, and every account stays as it is.
C7_NoMatchIsRejected ==
    [][(/\ rp[1].pc = "found" /\ rp'[1].pc # "found"
        /\ \A i \in DOMAIN rp[1].users :
              Substring64(ResetToken(rp[1].users[i], now)) # rp[1].token)
       => (/\ resp' = Response("resetPassword", 400, "invalid_or_expired", 0)
           /\ rp'[1].pc = "idle"
           /\ users' = users)]_vars

\* A call was rejected as matching no candidate while another account had an
\* active reset token.
C7_Witness ==
    /\ resp = Response("resetPassword", 400, "invalid_or_expired", 0)
    /\ ActiveResetUsers # {}
    /\ Len(users) = 2

\* What C8 says of a successful reset of account a with password p, for the
\* previous passwords in olds.
ResetEffect(a, p, olds) ==
    /\ users'[a].resetToken = {}
    /\ users'[a].resetTokenExpires = {}
    /\ LoginAnswer(users', now', users'[a].username, p).status = 200
    /\ \A old \in olds :
          LoginAnswer(users', now', users'[a].username, old).kind = "incorrect_password"
    /\ \A j \in UserIdx \ {a} : users'[j] = users[j]

PreviousPasswords(a) == {old \in PasswordInputs : BcryptCompare(old, users[a].password)}

\* C8 as stated: after a successful reset of account A with password p, A has
\* no resetToken and no resetTokenExpires, login with p succeeds, login with
\* the previous password fails with incorrect_password, and no other account
\* is modified.
C8_Original ==
    [][ResetDone => ResetEffect(resp'.user, rp[1].password, PreviousPasswords(resp'.user))]_vars

\* C8, amended: the same, where login with the previous password fails with
\* incorrect_password when p is not the previous password.
C8_ResetTakesEffect ==
    [][ResetDone => ResetEffect(resp'.user, rp[1].password,
                                PreviousPasswords(resp'.user) \ {rp[1].password})]_vars

\* A reset of one of two accounts has succeeded, and the password has changed.
C8_Witness ==
    /\ resp = Response("resetPassword", 200, "ok", resp.user)
    /\ Len(users) = 2
    /\ users[resp.user].password = BcryptHash("pw1")
    /\ users[resp.user].resetToken = {}

\* C9: login answers with a session token of {userId, username} that expires
\* an hour after its issue iff the username exists and the password matches
\* the stored hash; an unknown username is answered username_not_found, a
\* wrong password incorrect_password; after the first boot login as
\* admin/admin123 succeeds.
C9_Login ==
    [][/\ \A u \in UsernameInputs \ {""}, pw \in PasswordInputs \ {""} :
             Login(u, pw) =>
               LET known == {i \in UserIdx : users[i].username = u}
                   right == {i \in known : users[i].password = BcryptHash(pw)}
               IN  /\ resp'.status = 200 <=> right # {}
                   /\ right # {} =>
                         \E i \in right :
                            resp'.token =
                              {[payload |-> [userId |-> users[i].id, username |-> u],
                                iat |-> Sec(now), exp |-> Sec(now) + HourSec,
                                sig |-> JWT_SECRET]}
                   /\ known = {} => (resp'.status = 401 /\ resp'.kind = "username_not_found")
                   /\ (known # {} /\ right = {}) =>
                         (resp'.status = 401 /\ resp'.kind = "incorrect_password")
       /\ (users = <<>> /\ initializeDefaultUser) =>
             LoginAnswer(users', now', "admin", "admin123").status = 200]_vars

\* A login has succeeded after the account was renamed and given a new password.
C9_Witness ==
    /\ resp.op = "login" /\ resp.status = 200
    /\ users[resp.user].username = "root"
    /\ users[resp.user].password = BcryptHash("pw1")

\* C10: a well-signed session token is rejected by authenticateToken at every
\* time later than its issue (iat) plus one hour and accepted at every earlier
\* time, whatever has happened since it was issued.
C10_SessionExpiry ==
    (resp.op = "getSettings") =>
       \A tok \in resp.token :
          tok.sig = JWT_SECRET =>
             /\ now > (tok.iat + HourSec) * MsPerSec => resp.status = 403
             /\ now < (tok.iat + HourSec) * MsPerSec => resp.status \notin {401, 403}

\* A well-signed token was rejected after its hour, after a later login.
C10_Witness ==
    /\ resp.op = "getSettings" /\ resp.status = 403
    /\ \E tok \in resp.token : tok.sig = JWT_SECRET /\ now > (tok.iat + HourSec) * MsPerSec

(* ===================== the files of the data directory ================ *)
\* loadData: the parsed file, or null when the file is missing or is not
\* JSON.
Null == [kind |-> "null", items |-> <<>>]

loadData(c) == IF c.kind \in {"missing", "malformed"} THEN Null ELSE c

\* v || d
OrDefault(v, d) == IF v.kind = "null" THEN d ELSE v

\* Array.isArray(v); on anything else push, find, findIndex, filter and
\* unshift are not functions and the call throws into the handler's catch.
IsArray(v) == v.kind = "array"

\* skills && skills.skills
HasSkills(v) == v.kind = "object"

\* A record of projects.json, education.json or skills.json, and a message.
NewRecord(id, t) == [id |-> id, createdAt |-> t, updatedAt |-> {}]
NewMessage(id, t) == [id |-> id, createdAt |-> t, read |-> FALSE, readAt |-> {}]

\* {id: Date.now().toString(), ...req.body}: an id in the body replaces the
\* generated one.  body is the set holding the id of the request body, if any.
BodyId(body, generated) == IF body = {} THEN generated ELSE CHOOSE x \in body : TRUE

IndexOf(items, id) == {i \in 1..Len(items) : items[i].id = id}
First(S) == CHOOSE i \in S : \A j \in S : i <= j
Without(items, id) == SelectSeq(items, LAMBDA m : m.id # id)

\* messages.sort((a, b) => new Date(b.createdAt) - new Date(a.createdAt)):
\* newest first, records of one instant in their stored order.
RECURSIVE SortNewestFirst(_)
SortNewestFirst(items) ==
    IF Len(items) = 0 THEN <<>>
    ELSE LET newest == First({i \in 1..Len(items) :
                               \A j \in 1..Len(items) :
                                  items[j].createdAt <= items[i].createdAt})
         IN  <<items[newest]>> \o
             SortNewestFirst(SubSeq(items, 1, newest - 1) \o
                             SubSeq(items, newest + 1, Len(items)))

\* What a handler has decided when it has read its file: the response, and
\* the content it is going to save (write: no content, or one), whether it
\* looks at the result of saveData, and whether it sends a mail afterwards.
NoList == [kind |-> "none", items |-> <<>>]

Reply(status, kind) ==
    [status |-> status, kind |-> kind, list |-> NoList, item |-> {},
     write |-> {}, checked |-> FALSE, mail |-> FALSE]

List(content) == [Reply(200, "ok") EXCEPT !.list = content]
Item(record) == [Reply(200, "ok") EXCEPT !.item = {record}]

Save(status, content, checked, item) ==
    [Reply(status, "ok") EXCEPT !.write = {content}, !.checked = checked, !.item = item]

(* ------------------------------ projects ------------------------------ *)
\* GET /api/projects
GetProjects(c) ==
    LET projects == loadData(c)
    IN  List(IF IsArray(projects) THEN projects ELSE Array(<<>>))

\* GET /api/projects/:id
GetProjectsById(c, id) ==
    LET projects == loadData(c)
    IN  IF ~IsArray(projects) THEN Reply(500, "failed")
        ELSE LET found == IndexOf(projects.items, id)
             IN  IF found = {} THEN Reply(404, "not_found")
                 ELSE Item(projects.items[First(found)])

\* POST /api/projects
PostProjects(c, t) ==
    LET projects == OrDefault(loadData(c), Array(<<>>))
        projectsArray == IF IsArray(projects) THEN projects.items ELSE <<>>
        newProject == NewRecord(t, t)
    IN  Save(201, Array(Append(projectsArray, newProject)), TRUE, {newProject})

\* PUT /api/projects/:id; valid: title, description and technologies are given.
PutProjects(c, id, valid, t) ==
    LET projects == OrDefault(loadData(c), Array(<<>>))
    IN  IF ~IsArray(projects) THEN Reply(500, "failed")
        ELSE LET found == IndexOf(projects.items, id)
             IN  IF found = {} THEN Reply(404, "not_found")
                 ELSE IF ~valid THEN Reply(400, "validation")
                 ELSE LET index == First(found)
                          updated == [projects.items[index] EXCEPT !.updatedAt = {t}]
                      IN  Save(200, Array([projects.items EXCEPT ![index] = updated]),
                               TRUE, {updated})

\* DELETE /api/projects/:id
DeleteProjects(c, id) ==
    LET projects == OrDefault(loadData(c), Array(<<>>))
    IN  IF ~IsArray(projects) THEN Reply(500, "failed")
        ELSE LET filteredProjects == Without(projects.items, id)
             IN  IF Len(projects.items) = Len(filteredProjects)
                 THEN Reply(404, "not_found")
                 ELSE Save(200, Array(filteredProjects), FALSE, {})

(* ------------------------------ education ----------------------------- *)
\* GET /api/public/education and GET /api/education
GetEducation(c) == List(OrDefault(loadData(c), Array(<<>>)))

\* GET /api/education/:id
GetEducationById(c, id) ==
    LET education == OrDefault(loadData(c), Array(<<>>))
    IN  IF ~IsArray(education) THEN Reply(500, "failed")
        ELSE LET found == IndexOf(education.items, id)
             IN  IF found = {} THEN Reply(404, "not_found")
                 ELSE Item(education.items[First(found)])

\* POST /api/education
PostEducation(c, t) ==
    LET education == OrDefault(loadData(c), Array(<<>>))
        newEntry == NewRecord(t, t)
    IN  IF ~IsArray(education) THEN Reply(500, "failed")
        ELSE Save(200, Array(Append(education.items, newEntry)), FALSE, {newEntry})

\* PUT /api/education/:id
PutEducation(c, id, t) ==
    LET education == OrDefault(loadData(c), Array(<<>>))
    IN  IF ~IsArray(education) THEN Reply(500, "failed")
        ELSE LET found == IndexOf(education.items, id)
             IN  IF found = {} THEN Reply(404, "not_found")
                 ELSE LET index == First(found)
                          updatedEntry == [education.items[index] EXCEPT !.updatedAt = {t}]
                      IN  Save(200, Array([education.items EXCEPT ![index] = updatedEntry]),
                               FALSE, {updatedEntry})

\* DELETE /api/education/:id
DeleteEducation(c, id) ==
    LET education == OrDefault(loadData(c), Array(<<>>))
    IN  IF ~IsArray(education) THEN Reply(500, "failed")
        ELSE IF IndexOf(education.items, id) = {} THEN Reply(404, "not_found")
        ELSE Save(200, Array(Without(education.items, id)), FALSE, {})

(* ---------------------- technologies (skills.json) -------------------- *)
\* GET /api/technologies
GetTechnologies(c) == List(OrDefault(loadData(c), Array(<<>>)))

\* POST /api/technologies
PostTechnologies(c, t, body) ==
    LET skills == OrDefault(loadData(c), Array(<<>>))
        newSkill == NewRecord(BodyId(body, t), t)
    IN  IF ~IsArray(skills) THEN Reply(500, "failed")
        ELSE Save(200, Array(Append(skills.items, newSkill)), FALSE, {newSkill})

\* PUT /api/technologies/:id
PutTechnologies(c, id, t, body) ==
    LET skills == OrDefault(loadData(c), Array(<<>>))
    IN  IF ~IsArray(skills) THEN Reply(500, "failed")
        ELSE LET found == IndexOf(skills.items, id)
             IN  IF found = {} THEN Reply(404, "not_found")
                 ELSE LET index == First(found)
                          updatedSkill == [skills.items[index] EXCEPT
                                              !.id = BodyId(body, @), !.updatedAt = {t}]
                      IN  Save(200, Array([skills.items EXCEPT ![index] = updatedSkill]),
                               FALSE, {updatedSkill})

\* DELETE /api/technologies/:id
DeleteTechnologies(c, id) ==
    LET skills == OrDefault(loadData(c), Array(<<>>))
    IN  IF ~IsArray(skills) THEN Reply(500, "failed")
        ELSE LET filteredSkills == Without(skills.items, id)
             IN  IF Len(skills.items) = Len(filteredSkills)
                 THEN Reply(404, "not_found")
                 ELSE Save(200, SkillsObject(filteredSkills), FALSE, {})

(* ------------------------- skills (skills.json) ----------------------- *)
\* GET /api/skills
GetSkills(c) == List(OrDefault(loadData(c), SkillsObject(<<>>)))

\* GET /api/skills/:id
GetSkillsById(c, id) ==
    LET skills == loadData(c)
    IN  IF ~HasSkills(skills) THEN Reply(404, "data_not_found")
        ELSE LET found == IndexOf(skills.items, id)
             IN  IF found = {} THEN Reply(404, "not_found")
                 ELSE Item(skills.items[First(found)])

\* POST /api/skills
PostSkills(c, t, body) ==
    LET skills == OrDefault(loadData(c), SkillsObject(<<>>))
        newSkill == NewRecord(BodyId(body, t), t)
    IN  IF ~HasSkills(skills) THEN Reply(500, "failed")
        ELSE Save(200, SkillsObject(Append(skills.items, newSkill)), FALSE, {newSkill})

\* PUT /api/skills/:id
PutSkills(c, id, t, body) ==
    LET skills == loadData(c)
    IN  IF ~HasSkills(skills) THEN Reply(404, "data_not_found")
        ELSE LET found == IndexOf(skills.items, id)
             IN  IF found = {} THEN Reply(404, "not_found")
                 ELSE LET index == First(found)
                          updatedSkill == [skills.items[index] EXCEPT
                                              !.id = BodyId(body, @), !.updatedAt = {t}]
                      IN  Save(200, SkillsObject([skills.items EXCEPT ![index] = updatedSkill]),
                               FALSE, {updatedSkill})

\* DELETE /api/skills/:id
DeleteSkills(c, id) ==
    LET skills == loadData(c)
    IN  IF ~HasSkills(skills) THEN Reply(404, "data_not_found")
        ELSE LET filteredSkills == Without(skills.items, id)
             IN  IF Len(filteredSkills) = Len(skills.items)
                 THEN Reply(404, "not_found")
                 ELSE Save(200, SkillsObject(filteredSkills), FALSE, {})

(* ------------------------------ messages ------------------------------ *)
\* POST /api/messages, up to saveData; the notification mail follows.
PostMessages(c, t, body) ==
    LET messages == OrDefault(loadData(c), Array(<<>>))
        newMessage == NewMessage(BodyId(body, t), t)
    IN  IF ~IsArray(messages) THEN Reply(500, "failed")
        ELSE [Save(201, Array(<<newMessage>> \o messages.items), FALSE, {newMessage})
                 EXCEPT !.mail = TRUE]

\* GET /api/messages
GetMessages(c) ==
    LET messages == OrDefault(loadData(c), Array(<<>>))
    IN  IF ~IsArray(messages) THEN Reply(500, "failed")
        ELSE List(Array(SortNewestFirst(messages.items)))

\* GET /api/messages/:id
GetMessagesById(c, id) ==
    LET messages == OrDefault(loadData(c), Array(<<>>))
    IN  IF ~IsArray(messages) THEN Reply(500, "failed")
        ELSE LET found == IndexOf(messages.items, id)
             IN  IF found = {} THEN Reply(404, "not_found")
                 ELSE Item(messages.items[First(found)])

\* PUT /api/messages/:id/read
PutMessagesRead(c, id, t) ==
    LET messages == OrDefault(loadData(c), Array(<<>>))
    IN  IF ~IsArray(messages) THEN Reply(500, "failed")
        ELSE LET found == IndexOf(messages.items, id)
             IN  IF found = {} THEN Reply(404, "not_found")
                 ELSE LET index == First(found)
                          marked == [messages.items[index] EXCEPT
                                        !.read = TRUE, !.readAt = {t}]
                      IN  Save(200, Array([messages.items EXCEPT ![index] = marked]),
                               FALSE, {marked})

\* DELETE /api/messages/:id
DeleteMessages(c, id) ==
    LET messages == OrDefault(loadData(c), Array(<<>>))
    IN  IF ~IsArray(messages) THEN Reply(500, "failed")
        ELSE LET filteredMessages == Without(messages.items, id)
             IN  IF Len(messages.items) = Len(filteredMessages)
                 THEN Reply(404, "not_found")
                 ELSE Save(200, Array(filteredMessages), FALSE, {})

(* ------------------------------ the routes ---------------------------- *)
Lists == {"getProjects", "getPublicEducation", "getEducation", "getTechnologies",
          "getSkills", "getMessages"}
Reads == {"getProjectsById", "getEducationById", "getSkillsById", "getMessagesById"}
Creates == {"postProjects", "postEducation", "postTechnologies", "postSkills",
            "postMessages"}
Updates == {"putProjects", "putEducation", "putTechnologies", "putSkills",
            "putMessagesRead"}
Deletes == {"deleteProjects", "deleteEducation", "deleteTechnologies", "deleteSkills",
            "deleteMessages"}
Routes == Lists \cup Reads \cup Creates \cup Updates \cup Deletes

\* The routes registered with authenticateToken.
Guarded == Routes \ {"getProjects", "getProjectsById", "getPublicEducation", "getSkills",
                     "postMessages"}

\* The file a route works on.
FileOf(op) ==
    CASE op \in {"getProjects", "getProjectsById", "postProjects", "putProjects",
                 "deleteProjects"} -> "projects.json"
      [] op \in {"getPublicEducation", "getEducation", "getEducationById", "postEducation",
                 "putEducation", "deleteEducation"} -> "education.json"
      [] op \in {"getMessages", "getMessagesById", "postMessages", "putMessagesRead",
                 "deleteMessages"} -> "messages.json"
      [] OTHER -> "skills.json"

\* The route handler of op on file content c at time t, for the id of the
\* URL, the id of the body and the validity of the form.
Handle(op, c, id, body, valid, t) ==
    CASE op = "getProjects" -> GetProjects(c)
      [] op = "getProjectsById" -> GetProjectsById(c, id)
      [] op = "postProjects" -> PostProjects(c, t)
      [] op = "putProjects" -> PutProjects(c, id, valid, t)
      [] op = "deleteProjects" -> DeleteProjects(c, id)
      [] op \in {"getPublicEducation", "getEducation"} -> GetEducation(c)
      [] op = "getEducationById" -> GetEducationById(c, id)
      [] op = "postEducation" -> PostEducation(c, t)
      [] op = "putEducation" -> PutEducation(c, id, t)
      [] op = "deleteEducation" -> DeleteEducation(c, id)
      [] op = "getTechnologies" -> GetTechnologies(c)
      [] op = "postTechnologies" -> PostTechnologies(c, t, body)
      [] op = "putTechnologies" -> PutTechnologies(c, id, t, body)
      [] op = "deleteTechnologies" -> DeleteTechnologies(c, id)
      [] op = "getSkills" -> GetSkills(c)
      [] op = "getSkillsById" -> GetSkillsById(c, id)
      [] op = "postSkills" -> PostSkills(c, t, body)
      [] op = "putSkills" -> PutSkills(c, id, t, body)
      [] op = "deleteSkills" -> DeleteSkills(c, id)
      [] op = "postMessages" -> PostMessages(c, t, body)
      [] op = "getMessages" -> GetMessages(c)
      [] op = "getMessagesById" -> GetMessagesById(c, id)
      [] op = "putMessagesRead" -> PutMessagesRead(c, id, t)
      [] op = "deleteMessages" -> DeleteMessages(c, id)

\* The response of a route: what res.json sends.
FileResponse(op, out) ==
    [op |-> op, status |-> out.status, kind |-> out.kind, user |-> 0, token |-> {},
     list |-> out.list, item |-> out.item]

\* A request arrives: authenticateToken on a guarded route, then the handler
\* reads its file and answers, or goes on to save.  (A file holds at most
\* MaxItems records.)
HttpStart(p, op, bearer, id, body, valid) ==
    /\ http[p].pc = "idle"
    /\ LET auth == IF op \in Guarded THEN authenticateToken(bearer) ELSE 200
           out == Handle(op, files[FileOf(op)], id, body, valid, now)
       IN  IF auth # 200
           THEN /\ resp' = [FileResponse(op, Reply(auth, "auth")) EXCEPT !.token = bearer]
                /\ http' = http
           ELSE IF out.write = {}
           THEN /\ resp' = [FileResponse(op, out) EXCEPT !.token = bearer]
                /\ http' = http
           ELSE /\ \A content \in out.write : Len(content.items) <= MaxItems
                /\ resp' = NoResp
                /\ http' = [http EXCEPT ![p] = [pc |-> "saving", op |-> op,
                                                 bearer |-> bearer,
                                                 file |-> FileOf(op), out |-> out,
                                                 saved |-> FALSE]]
    /\ UNCHANGED <<now, users, sessions, rq, rp, unused, firstMail, fresh>>
    /\ UNCHANGED <<files, stats, archives, job>>

\* saveData of the handler, merging what the file holds with what the handler
\* adds instead of overwriting the file.
HttpSaveMerging(p, ok) ==
    /\ http[p].pc = "saving"
    /\ LET r == http[p]
           data == CHOOSE content \in r.out.write : TRUE
           mine == SelectSeq(data.items, LAMBDA m : m \in r.out.item)
       IN  /\ files' = IF ok
                       THEN [files EXCEPT ![r.file] =
                                [data EXCEPT !.items = files[r.file].items \o mine]]
                       ELSE files
           /\ IF ~ok /\ r.out.checked
              THEN /\ resp' = FileResponse(r.op, Reply(500, "failed"))
                   /\ http' = [http EXCEPT ![p] = HttpIdle]
              ELSE IF r.out.mail
              THEN /\ resp' = NoResp
                   /\ http' = [http EXCEPT ![p] = [r EXCEPT !.pc = "mailing", !.saved = ok]]
              ELSE /\ resp' = FileResponse(r.op, r.out)
                   /\ http' = [http EXCEPT ![p] = HttpIdle]
    /\ UNCHANGED <<now, users, sessions, rq, rp, unused, firstMail, fresh>>
    /\ UNCHANGED <<stats, archives, job>>

\* saveData of the handler: the file is overwritten with the handler's
\* content, or the write fails; then the response, or the mail.
HttpSave(p, ok) ==
    /\ http[p].pc = "saving"
    /\ LET r == http[p]
           data == CHOOSE content \in r.out.write : TRUE
       IN  /\ files' = IF ok THEN [files EXCEPT ![r.file] = data] ELSE files
           /\ IF ~ok /\ r.out.checked
              THEN /\ resp' = FileResponse(r.op, Reply(500, "failed"))
                   /\ http' = [http EXCEPT ![p] = HttpIdle]
              ELSE IF r.out.mail
              THEN /\ resp' = NoResp
                   /\ http' = [http EXCEPT ![p] = [r EXCEPT !.pc = "mailing", !.saved = ok]]
              ELSE /\ resp' = FileResponse(r.op, r.out)
                   /\ http' = [http EXCEPT ![p] = HttpIdle]
    /\ UNCHANGED <<now, users, sessions, rq, rp, unused, firstMail, fresh>>
    /\ UNCHANGED <<stats, archives, job>>

\* A handler that takes the message out of the file again when the mail
\* fails.
HttpMailRollingBack(p, ok) ==
    /\ http[p].pc = "mailing"
    /\ resp' = IF ok THEN FileResponse(http[p].op, http[p].out)
               ELSE FileResponse(http[p].op, Reply(500, "failed"))
    /\ files' = IF ok THEN files
                ELSE [files EXCEPT ![http[p].file].items =
                         SelectSeq(@, LAMBDA m : m \notin http[p].out.item)]
    /\ http' = [http EXCEPT ![p] = HttpIdle]
    /\ UNCHANGED <<now, users, sessions, rq, rp, unused, firstMail, fresh>>
    /\ UNCHANGED <<stats, archives, job>>

\* transporter.sendMail of POST /api/messages and the response.
HttpMail(p, ok) ==
    /\ http[p].pc = "mailing"
    /\ resp' = IF ok THEN FileResponse(http[p].op, http[p].out)
               ELSE FileResponse(http[p].op, Reply(500, "failed"))
    /\ http' = [http EXCEPT ![p] = HttpIdle]
    /\ UNCHANGED <<now, users, sessions, rq, rp, unused, firstMail, fresh>>
    /\ UNCHANGED <<files, stats, archives, job>>

\* History: the records that create requests answered with success.
Ack(tracking) ==
    acks' = IF tracking /\ resp'.op \in Creates /\ resp'.status \in {200, 201}
            THEN acks \cup resp'.item
            ELSE acks

(* ------------------------------- stats -------------------------------- *)
\* x || 0 of a field: the value, 0 when the field is absent.
OrZero(field) == IF field = {} THEN 0 ELSE CHOOSE x \in field : TRUE

\* new Date().getMonth(): the months are taken as thirty days long, the last
\* one takes the rest of the year.
Month(t) ==
    LET m == (t % YearMs) \div ThirtyDaysMs
    IN  IF m > 11 THEN 11 ELSE m

\* incrementCounter(counterName) of POST /api/stats/cv-view and
\* POST /api/stats/cv-download, up to saveData.
incrementCounter(c, counterName) ==
    LET stats_ == IF c.kind = "object" THEN c ELSE EmptyObject
    IN  [stats_ EXCEPT ![counterName] = {OrZero(@) + 1}]

\* GET /api/stats, up to saveData: the counters with the number of messages.
GetStats(c, m) ==
    LET stats_ == IF c.kind = "object" THEN c ELSE DefaultStats
        messages == OrDefault(loadData(m), Array(<<>>))
    IN  [stats_ EXCEPT !.messageCount = {Len(messages.items)}]

\* POST /api/stats/visitor at time t, up to saveData: the set holding the
\* object to save, or the empty set when the handler throws.  undefined + 1
\* is NaN; stats.monthlyVisitors[currentMonth] of an object without
\* monthlyVisitors is a TypeError.
PostStatsVisitor(c, t) ==
    LET stats_ == IF c.kind = "object" THEN c ELSE DefaultStats
    IN  IF stats_.monthlyVisitors = {} THEN {}
        ELSE LET buckets == CHOOSE b \in stats_.monthlyVisitors : TRUE
             IN  {[stats_ EXCEPT
                     !.visitors = IF @ = {} THEN {NaN} ELSE {OrZero(@) + 1},
                     !.monthlyVisitors = {[buckets EXCEPT ![Month(t)] = @ + 1]}]}

StatsRoutes == {"getStats", "postStatsCvView", "postStatsCvDownload", "postStatsVisitor"}

\* A request of a stats route arrives and reads stats.json.  (Each counter
\* stays within MaxItems.)
StatsStart(p, op, bearer) ==
    /\ http[p].pc = "idle"
    /\ op \in StatsRoutes
    /\ LET auth == IF op = "getStats" THEN authenticateToken(bearer) ELSE 200
           value == CASE op = "getStats" -> {GetStats(stats, files["messages.json"])}
                      [] op = "postStatsCvView" -> {incrementCounter(stats, "cvViews")}
                      [] op = "postStatsCvDownload" -> {incrementCounter(stats, "cvDownloads")}
                      [] op = "postStatsVisitor" -> PostStatsVisitor(stats, now)
       IN  IF auth # 200
           THEN /\ resp' = [FileResponse(op, Reply(auth, "auth")) EXCEPT !.token = bearer]
                /\ http' = http
           ELSE IF value = {}
           THEN /\ resp' = [FileResponse(op, Reply(500, "failed")) EXCEPT !.token = bearer]
                /\ http' = http
           ELSE \E v \in value :
                  /\ \A n \in v.visitors \cup v.cvViews \cup v.cvDownloads :
                        n <= MaxItems
                  /\ resp' = NoResp
                  /\ http' = [http EXCEPT ![p] = [pc |-> "counting", op |-> op,
                                                   bearer |-> bearer, value |-> v]]
    /\ UNCHANGED <<now, users, sessions, rq, rp, unused, firstMail, fresh>>
    /\ UNCHANGED <<files, stats, archives, job>>

\* saveData('stats.json', stats); its result is not looked at.
StatsSave(p, ok) ==
    /\ http[p].pc = "counting"
    /\ stats' = IF ok THEN http[p].value ELSE stats
    /\ resp' = FileResponse(http[p].op, Reply(200, "ok"))
    /\ http' = [http EXCEPT ![p] = HttpIdle]
    /\ UNCHANGED <<now, users, sessions, rq, rp, unused, firstMail, fresh>>
    /\ UNCHANGED <<files, archives, job>>

(* --------------------------- the archival job ------------------------- *)
Year(t) == t \div YearMs

\* The partition without the look at the read flag.
IsOldIgnoringRead(message, t) == message.createdAt < t - ThirtyDaysMs

\* The partition that takes a message of exactly thirty days for old.
IsOldInclusive(message, t) == message.createdAt <= t - ThirtyDaysMs /\ message.read

\* messageDate < thirtyDaysAgo && message.read, for a run at time t.
IsOld(message, t) == message.createdAt < t - ThirtyDaysMs /\ message.read

\* archiveOldMessages: loads messages.json and partitions it; with no old
\* message the run ends here.
ArchiveLoadMessages ==
    /\ job.pc = "idle"
    /\ LET messages == OrDefault(loadData(files["messages.json"]), Array(<<>>))
           oldMessages == SelectSeq(messages.items, LAMBDA m : IsOld(m, now))
           currentMessages == SelectSeq(messages.items, LAMBDA m : ~IsOld(m, now))
       IN  job' = IF ~IsArray(messages) \/ Len(oldMessages) = 0
                  THEN JobIdle
                  ELSE [pc |-> "partitioned", at |-> now, messages |-> messages.items,
                        oldMessages |-> oldMessages,
                        currentMessages |-> currentMessages]
    /\ resp' = NoResp
    /\ UNCHANGED <<now, users, sessions, rq, rp, unused, firstMail, fresh>>
    /\ UNCHANGED <<files, stats, archives, http>>

\* archiveOldMessages: loads the archive of the current year and appends the
\* old messages.  (An archive holds at most MaxItems messages.)
ArchiveLoadArchive ==
    /\ job.pc = "partitioned"
    /\ LET archive == OrDefault(loadData(archives[Year(now)]), Array(<<>>))
       IN  /\ Len(archive.items) + Len(job.oldMessages) <= MaxItems
           /\ job' = IF ~IsArray(archive) THEN JobIdle
                     ELSE [job EXCEPT !.pc = "saving"] @@
                          [year |-> Year(now),
                           archive |-> Array(archive.items \o job.oldMessages),
                           left |-> {"archive", "messages"}]
    /\ resp' = NoResp
    /\ UNCHANGED <<now, users, sessions, rq, rp, unused, firstMail, fresh>>
    /\ UNCHANGED <<files, stats, archives, http>>

\* A job that writes back what messages.json holds by then, without the old
\* messages.
ArchiveSaveKeepingNew(which, ok) ==
    /\ job.pc = "saving"
    /\ which \in job.left
    /\ archives' = IF which = "archive" /\ ok
                   THEN [archives EXCEPT ![job.year] = job.archive]
                   ELSE archives
    /\ files' = IF which = "messages" /\ ok
                THEN [files EXCEPT !["messages.json"] =
                         Array(SelectSeq(files["messages.json"].items,
                                         LAMBDA m : \A i \in 1..Len(job.oldMessages) :
                                                       job.oldMessages[i] # m))]
                ELSE files
    /\ job' = IF job.left = {which} THEN JobIdle ELSE [job EXCEPT !.left = @ \ {which}]
    /\ resp' = NoResp
    /\ UNCHANGED <<now, users, sessions, rq, rp, unused, firstMail, fresh>>
    /\ UNCHANGED <<stats, http>>

\* archiveOldMessages: the two saveData calls of Promise.all, in either
\* order; the result of neither is looked at.
ArchiveSave(which, ok) ==
    /\ job.pc = "saving"
    /\ which \in job.left
    /\ archives' = IF which = "archive" /\ ok
                   THEN [archives EXCEPT ![job.year] = job.archive]
                   ELSE archives
    /\ files' = IF which = "messages" /\ ok
                THEN [files EXCEPT !["messages.json"] = Array(job.currentMessages)]
                ELSE files
    /\ job' = IF job.left = {which} THEN JobIdle ELSE [job EXCEPT !.left = @ \ {which}]
    /\ resp' = NoResp
    /\ UNCHANGED <<now, users, sessions, rq, rp, unused, firstMail, fresh>>
    /\ UNCHANGED <<stats, http>>

\* Time passes: a millisecond, thirty days or a year, each up to a bound.
Sleep(d) ==
    /\ \/ d = 1 /\ now % ThirtyDaysMs < MaxTimeArchive
       \/ d = ThirtyDaysMs /\ (now % YearMs) \div ThirtyDaysMs < MaxMonths
       \/ d = YearMs /\ now \div YearMs < MaxYears
    /\ now' = now + d
    /\ resp' = NoResp
    /\ UNCHANGED <<users, sessions, rq, rp, unused, firstMail, fresh>>
    /\ UNCHANGED <<files, stats, archives, http, job>>

(* ------------------- specifications of the data directory ------------- *)
\* What a data file can hold when the server starts.
InitialContents(f) ==
    {Missing, Malformed, Array(<<>>)} \cup
    (IF f = "skills.json" THEN {SkillsObject(<<>>)} ELSE {})

\* The server starts with one of the data files in any of these states.
InitStored ==
    /\ InitAccounts
    /\ InitHandlers
    /\ \E f \in FileNames :
          \E c \in InitialContents(f) :
             files = [g \in FileNames |-> IF g = f THEN c ELSE Missing]
    /\ stats = StatsMissing
    /\ archives = [y \in Years |-> Missing]

\* The ids of URLs and the ids of request bodies.
UrlIds == {0, 1, 9}
BodyIds == {{}, {7}}

\* The requests of a run work on one file: every other file is untouched.
Focused(f) == \A g \in FileNames \ {f} : files[g] = Missing

\* Every route of the data files, one request at a time, with the inputs
\* that the route reads.
NextFiles ==
    \/ TickUntil(MaxTimeFiles) /\ History(FALSE, FALSE, FALSE)
    \/ initializeDefaultUser /\ History(FALSE, FALSE, FALSE)
    \/ Login("admin", "admin123") /\ History(FALSE, FALSE, FALSE)
    \/ \E op \in Lists \cup Creates, b \in Bearers :
          Focused(FileOf(op)) /\ HttpStart(1, op, b, 0, {}, TRUE) /\ Ack(FALSE)
    \/ \E op \in Reads \cup Deletes, b \in Bearers, id \in UrlIds :
          Focused(FileOf(op)) /\ HttpStart(1, op, b, id, {}, TRUE) /\ Ack(FALSE)
    \/ \E op \in Updates, b \in Bearers, id \in UrlIds, valid \in BOOLEAN :
          /\ valid \/ op = "putProjects"
          /\ Focused(FileOf(op)) /\ HttpStart(1, op, b, id, {}, valid) /\ Ack(FALSE)
    \/ \E ok \in BOOLEAN : HttpSave(1, ok) /\ Ack(FALSE)
    \/ \E ok \in BOOLEAN : HttpMail(1, ok) /\ Ack(FALSE)
    \/ \E b \in Bearers : Focused("") /\ StatsStart(1, "getStats", b) /\ Ack(FALSE)
    \/ \E ok \in BOOLEAN : StatsSave(1, ok) /\ Ack(FALSE)

SpecFiles == InitStored /\ [][NextFiles]_vars

(* -------------------- the routes of the data directory ---------------- *)
\* The header carries a token that is badly signed or has expired.
BadToken(bearer) ==
    /\ bearer # {}
    /\ \A tok \in bearer : tok.sig # JWT_SECRET \/ Sec(now) >= tok.exp

\* The file of route op holds a record with this id.
Holds(op, id) == \E i \in 1..Len(files[FileOf(op)].items) : files[FileOf(op)].items[i].id = id

\* C11: on every route guarded by authenticateToken, a request without a
\* bearer token is answered 401 and a request whose token is badly signed or
\* has expired is answered 403, and the handler does not run: no data file,
\* no stats file and no account changes, and no handler goes on to save for
\* such a request.
C11_GuardedRoutes ==
    [][/\ (/\ http[1].pc = "idle" /\ http'[1].pc = "idle" /\ resp' # resp
           /\ resp'.op \in Guarded \cup {"getStats"}) =>
             /\ resp'.token = {} => resp'.status = 401
             /\ BadToken(resp'.token) => resp'.status = 403
             /\ (resp'.token = {} \/ BadToken(resp'.token)) =>
                   (files' = files /\ stats' = stats /\ users' = users)
       /\ (/\ http[1].pc = "idle" /\ http'[1].pc # "idle"
           /\ http'[1].op \in Guarded \cup {"getStats"}) =>
             (http'[1].bearer # {} /\ ~BadToken(http'[1].bearer))]_vars

\* A delete of a stored record that presented an expired, well-signed token
\* was answered 403 and the record is still there.
C11_Witness ==
    /\ resp.op = "deleteProjects" /\ resp.status = 403
    /\ \E tok \in resp.token : tok.sig = JWT_SECRET /\ Sec(now) >= tok.exp
    /\ Len(files["projects.json"].items) > 0

\* C16: a DELETE with an id that no record of the file has is answered 404 and
\* nothing is saved, for every collection and every state of its file.
C16_DeleteUnknownId ==
    [][\A op \in Deletes, b \in Bearers, id \in UrlIds :
          (~Holds(op, id) /\ b # {} /\ ~BadToken(b) /\ HttpStart(1, op, b, id, {}, TRUE)) =>
             (resp'.status = 404 /\ http' = http /\ files' = files)]_vars

\* C17: the records that sequential POST requests stored in projects.json and
\* in education.json have pairwise distinct ids.
C17_DistinctIds ==
    \A f \in {"projects.json", "education.json"} :
       \A i, j \in 1..Len(files[f].items) :
          files[f].items[i].id = files[f].items[j].id => i = j

\* C18: on a missing or malformed file every route behaves as on an empty
\* collection: a list read returns the empty default, a read, update or delete
\* by id is answered 404, and a create goes on to save the one new record.
C18_MissingFileIsEmpty ==
    [][\A op \in Routes, b \in Bearers, id \in UrlIds, valid \in BOOLEAN :
          (/\ files[FileOf(op)].kind \in {"missing", "malformed"}
           /\ op \in Guarded => (b # {} /\ ~BadToken(b))
           /\ HttpStart(1, op, b, id, {}, valid)) =>
             /\ op \in Lists => (resp'.status = 200 /\ resp'.list.items = <<>>)
             /\ op \in Reads \cup Updates \cup Deletes => resp'.status = 404
             /\ op \in Creates =>
                   /\ http'[1].pc = "saving"
                   /\ \A content \in http'[1].out.write :
                         <<content.items[1]>> = content.items
                         /\ content.items[1] \in http'[1].out.item]_vars

\* C19: when the disk write of a create, update or delete fails, the request
\* is answered 500 and not with a success.
C19_FailedWriteAnswer ==
    [][(http[1].pc = "saving" /\ HttpSave(1, FALSE) /\ ~http[1].out.mail) =>
          resp'.status = 500]_vars

\* C20: POST /api/messages sends the notification mail after saveData; when
\* the mail fails the answer is 500 and the file is left as it is, so that a
\* message that was written is still in messages.json.
C20_MessageKeptWhenMailFails ==
    [][/\ (http[1].pc # "mailing" /\ http'[1].pc = "mailing") =>
            (http[1].pc = "saving" /\ http[1].op = "postMessages"
             /\ (http'[1].saved => files'["messages.json"] \in http[1].out.write))
       /\ (http[1].pc = "mailing" /\ http'[1].pc = "idle" /\ resp'.status # 201) =>
            /\ resp'.status = 500
            /\ files' = files
            /\ http[1].saved =>
                  \E i \in 1..Len(files'["messages.json"].items) :
                     files'["messages.json"].items[i] \in http[1].out.item]_vars

\* The mail of a saved message failed, the answer was 500 and the message is
\* the first of the file.
C20_Witness ==
    /\ resp.op = "postMessages" /\ resp.status = 500
    /\ Len(files["messages.json"].items) > 0
    /\ files["messages.json"].items[1] = NewMessage(now, now)

(* --------------------------- concurrent writers ----------------------- *)
\* Requests that run concurrently: POST /api/projects and POST
\* /api/stats/cv-view, with the records that were answered with success.
NextRaceFiles ==
    \/ TickUntil(MaxTimeFiles) /\ History(FALSE, FALSE, FALSE)
    \/ initializeDefaultUser /\ History(FALSE, FALSE, FALSE)
    \/ Login("admin", "admin123") /\ History(FALSE, FALSE, FALSE)
    \/ \E p \in Procs, tok \in sessions :
          HttpStart(p, "postProjects", {tok}, 0, {}, TRUE) /\ Ack(TRUE)
    \/ \E p \in Procs, ok \in BOOLEAN : HttpSave(p, ok) /\ Ack(TRUE)
    \/ \E p \in Procs : StatsStart(p, "postStatsCvView", {}) /\ Ack(TRUE)
    \/ \E p \in Procs, ok \in BOOLEAN : StatsSave(p, ok) /\ Ack(TRUE)

SpecRaceFiles == Init /\ [][NextRaceFiles]_vars

\* C12: a write request saves what it loaded plus its own change, whatever
\* the file holds by then: after the save of a request that answers success
\* the file is the content the request built from its own load, so the record
\* (or count) another request saved since that load is lost.
C12_LastWriteWins ==
    [][\A p \in Procs :
          /\ (http[p].pc = "saving" /\ http'[p].pc = "idle" /\ resp'.status = 201) =>
                files'[http[p].file] \in http[p].out.write
          /\ (http[p].pc = "counting" /\ http'[p].pc = "idle" /\ stats' # stats) =>
                stats' = http[p].value]_vars

\* Two POST /api/projects were answered 201 with different records and
\* projects.json holds one record.
C12_Witness ==
    /\ Cardinality(acks) = 2
    /\ \A p \in Procs : http[p].pc = "idle"
    /\ Len(files["projects.json"].items) = 1
    /\ resp.op = "postProjects" /\ resp.status = 201

(* ------------------------------ archival ------------------------------ *)
\* The ids of the stored messages.
MessageIds == {files["messages.json"].items[i].id :
                  i \in 1..Len(files["messages.json"].items)}

\* The message routes and the archival job, running concurrently; the
\* writes of the routes succeed.
NextArchive ==
    \/ \E d \in {ThirtyDaysMs, YearMs} : Sleep(d) /\ Ack(FALSE)
    \/ initializeDefaultUser /\ History(FALSE, FALSE, FALSE)
    \/ Login("admin", "admin123") /\ History(FALSE, FALSE, FALSE)
    \/ HttpStart(1, "postMessages", {}, 0, {}, TRUE) /\ Ack(FALSE)
    \/ \E op \in {"putMessagesRead", "deleteMessages"}, tok \in sessions, id \in MessageIds :
          HttpStart(1, op, {tok}, id, {}, TRUE) /\ Ack(FALSE)
    \/ HttpSave(1, TRUE) /\ Ack(FALSE)
    \/ \E ok \in BOOLEAN : HttpMail(1, ok) /\ Ack(FALSE)
    \/ ArchiveLoadMessages /\ Ack(FALSE)
    \/ ArchiveLoadArchive /\ Ack(FALSE)
    \/ \E which \in {"archive", "messages"}, ok \in BOOLEAN :
          ArchiveSave(which, ok) /\ Ack(FALSE)

SpecArchive == Init /\ [][NextArchive]_vars

\* One request or one run of the job at a time: the job runs while no request
\* is in flight and in no time, and a request starts when no run is under way.
NextArchiveSolo ==
    \/ \E d \in {1, ThirtyDaysMs, YearMs} : job.pc = "idle" /\ Sleep(d) /\ Ack(FALSE)
    \/ initializeDefaultUser /\ History(FALSE, FALSE, FALSE)
    \/ Login("admin", "admin123") /\ History(FALSE, FALSE, FALSE)
    \/ job.pc = "idle" /\ HttpStart(1, "postMessages", {}, 0, {}, TRUE) /\ Ack(FALSE)
    \/ \E tok \in sessions, id \in MessageIds :
          job.pc = "idle" /\ HttpStart(1, "putMessagesRead", {tok}, id, {}, TRUE) /\ Ack(FALSE)
    \/ HttpSave(1, TRUE) /\ Ack(FALSE)
    \/ HttpMail(1, TRUE) /\ Ack(FALSE)
    \/ http[1].pc = "idle" /\ ArchiveLoadMessages /\ Ack(FALSE)
    \/ ArchiveLoadArchive /\ Ack(FALSE)
    \/ \E which \in {"archive", "messages"}, ok \in BOOLEAN :
          ArchiveSave(which, ok) /\ Ack(FALSE)

SpecArchiveSolo == Init /\ [][NextArchiveSolo]_vars

Range(seq) == {seq[i] : i \in 1..Len(seq)}

\* C13: the job overwrites messages.json with what it computed from its own
\* load: a record that a request wrote to the file after that load is not in
\* the file after the job's write.
C13_JobOverwrites ==
    [][(job.pc = "saving" /\ http' = http
        /\ files'["messages.json"] # files["messages.json"]) =>
          \A m \in Range(files["messages.json"].items) :
             m \notin Range(job.messages) => m \notin Range(files'["messages.json"].items)]_vars

\* POST /api/messages was answered 201, after its write succeeded, and its
\* message is in neither messages.json nor an archive: a run of the job that
\* had loaded the file before has overwritten it.
C13_Witness ==
    /\ resp.op = "postMessages" /\ resp.status = 201
    /\ job.pc = "idle"
    /\ \A m \in resp.item :
          /\ m \notin Range(files["messages.json"].items)
          /\ \A y \in Years : m \notin Range(archives[y].items)
    /\ \E y \in Years : Len(archives[y].items) > 0

\* A message qualifies for a run at time t: read, and created more than
\* thirty days before.
Qualifies(m, t) == m.read = TRUE /\ m.createdAt + ThirtyDaysMs < t

\* C14: a run without concurrent writers appends exactly the loaded messages
\* that qualify, in their order, to the archive of the current year, after
\* the entries it holds, and leaves exactly the other messages, in their
\* order, in messages.json; a run goes on to write only when a message
\* qualifies.
C14_ArchivalRun ==
    [][/\ (job.pc = "idle" /\ job'.pc # "idle") =>
             \E m \in Range(files["messages.json"].items) : Qualifies(m, now)
       /\ (job.pc = "saving" /\ archives' # archives) =>
             /\ archives'[Year(now)].items =
                   archives[Year(now)].items \o
                   SelectSeq(job.messages, LAMBDA m : Qualifies(m, now))
             /\ \A y \in Years \ {Year(now)} : archives'[y] = archives[y]
       /\ (job.pc = "saving" /\ files' # files) =>
             /\ files'["messages.json"].items =
                   SelectSeq(job.messages, LAMBDA m : ~Qualifies(m, now))
             /\ \A f \in FileNames \ {"messages.json"} : files'[f] = files[f]]_vars

\* Two runs have appended a message each to the archive of one year and the
\* message that did not qualify is still in messages.json.
C14_Witness ==
    /\ job.pc = "idle"
    /\ \E y \in Years : Len(archives[y].items) = 2
    /\ \E m \in Range(files["messages.json"].items) : ~Qualifies(m, now)

\* C15: no archive holds a message whose read flag is false.
C15_ArchivedAreRead ==
    \A y \in Years : \A m \in Range(archives[y].items) : m.read = TRUE

\* An archive holds a message, and messages.json still holds an unread message
\* that is no younger and more than thirty days old.
C15_Witness ==
    /\ job.pc = "idle"
    /\ \E y \in Years : \E a \in Range(archives[y].items) :
          \E m \in Range(files["messages.json"].items) :
             /\ ~m.read
             /\ m.createdAt <= a.createdAt
             /\ m.createdAt + ThirtyDaysMs < now

(* ------------------------ the shape of skills.json -------------------- *)
\* C21: every request of /api/skills and /api/technologies that writes
\* skills.json stores the object {skills: [...]}, never a bare array.
C21_SkillsShape ==
    [][files'["skills.json"] # files["skills.json"] =>
          files'["skills.json"].kind = "object"]_vars

(* ------------------------------ the counters -------------------------- *)
\* The stats routes, one request at a time, over the months of a year.
NextStats ==
    \/ Sleep(ThirtyDaysMs) /\ Ack(FALSE)
    \/ initializeDefaultUser /\ History(FALSE, FALSE, FALSE)
    \/ Login("admin", "admin123") /\ History(FALSE, FALSE, FALSE)
    \/ \E op \in StatsRoutes, b \in Bearers : StatsStart(1, op, b) /\ Ack(FALSE)
    \/ \E ok \in BOOLEAN : StatsSave(1, ok) /\ Ack(FALSE)

SpecStats == Init /\ [][NextStats]_vars

\* C22: POST /api/stats/visitor is answered with success whatever stats.json
\* holds, and its write adds one to visitors and to the bucket of exactly one
\* month and leaves cvViews and cvDownloads as they are.
C22_VisitorCounts ==
    [][/\ resp'.op = "postStatsVisitor" => resp'.status = 200
       /\ (/\ http[1].pc = "counting" /\ http'[1].pc = "idle"
           /\ resp'.op = "postStatsVisitor" /\ stats' # stats) =>
             LET before == IF stats.kind = "object" THEN stats ELSE DefaultStats
             IN  /\ stats'.visitors = {OrZero(before.visitors) + 1}
                 /\ stats'.cvViews = before.cvViews
                 /\ stats'.cvDownloads = before.cvDownloads
                 /\ \E m \in Months :
                       \A old \in before.monthlyVisitors :
                          stats'.monthlyVisitors =
                             {[old EXCEPT ![m] = @ + 1]}]_vars

(* ------------------------------ the upload ---------------------------- *)
\* The MIME type of the image part of a multipart request; NoFile: the
\* request has no image part.
NoFile == ""
allowedTypes == {"image/jpeg", "image/png", "image/gif"}
MimeTypes == {NoFile, "image/jpeg", "image/png", "image/webp", "application/pdf"}

\* A filter that lets every image type through.
fileFilterAnyImage(mimetype) == mimetype \in allowedTypes \cup {"image/webp"}

\* fileFilter of upload: cb(null, true), or cb(new Error('Invalid file type')).
fileFilter(mimetype) == mimetype \in allowedTypes

\* POST /api/projects and PUT /api/projects/:id: authenticateToken, then
\* upload.single('image'), then the handler.  The error of the filter goes to
\* errorHandler, which answers 500 with the error's message.
UploadSingle(p, op, bearer, mimetype, id, valid) ==
    /\ op \in {"postProjects", "putProjects"}
    /\ IF authenticateToken(bearer) = 200 /\ mimetype # NoFile /\ ~fileFilter(mimetype)
       THEN /\ http[p].pc = "idle"
            /\ resp' = [FileResponse(op, Reply(500, "Invalid file type"))
                           EXCEPT !.token = bearer]
            /\ UNCHANGED <<now, users, sessions, rq, rp, unused, firstMail, fresh>>
            /\ UNCHANGED <<files, stats, archives, http, job>>
       ELSE HttpStart(p, op, bearer, id, {}, valid)

\* The routes of projects.json that take an upload, one request at a time.
NextUpload ==
    \/ TickUntil(MaxTimeFiles) /\ History(FALSE, FALSE, FALSE)
    \/ initializeDefaultUser /\ History(FALSE, FALSE, FALSE)
    \/ Login("admin", "admin123") /\ History(FALSE, FALSE, FALSE)
    \/ \E op \in {"postProjects", "putProjects"}, b \in Bearers, m \in MimeTypes,
          id \in UrlIds, valid \in BOOLEAN :
          UploadSingle(1, op, b, m, id, valid) /\ Ack(FALSE)
    \/ \E id \in UrlIds, b \in Bearers :
          HttpStart(1, "deleteProjects", b, id, {}, TRUE) /\ Ack(FALSE)
    \/ \E ok \in BOOLEAN : HttpSave(1, ok) /\ Ack(FALSE)

SpecUpload == Init /\ [][NextUpload]_vars

\* C23: a POST or PUT of /api/projects whose image part has a MIME type other
\* than JPEG, PNG and GIF never reaches the handler: no save is started,
\* projects.json and every other file stay as they are, and a request with a
\* valid token is answered by the error of the upload filter.
C23_UploadRejected ==
    [][\A op \in {"postProjects", "putProjects"}, b \in Bearers,
          m \in MimeTypes \ {NoFile, "image/jpeg", "image/png", "image/gif"} :
          UploadSingle(1, op, b, m, 0, TRUE) =>
             /\ files' = files
             /\ http' = http
             /\ resp'.status \in {401, 403, 500}
             /\ resp'.status = 500 => resp'.kind = "Invalid file type"]_vars

\* projects.json holds a project and the last request, a PUT with a valid
\* token, was answered by the error of the upload filter.
C23_Witness ==
    /\ Len(files["projects.json"].items) > 0
    /\ resp.op = "putProjects"
    /\ resp.status = 500
    /\ resp.kind = "Invalid file type"
    /\ http[1].pc = "idle"

(* ------------------------------ the theme ----------------------------- *)
\* obj[name] of a decoded token payload: the set holding the value, empty
\* when the payload has no such field (undefined).
Field(obj, name) == IF name \in DOMAIN obj THEN {obj[name]} ELSE {}

\* A record of users.json; id is the set holding its id, empty without one.
UsersRecord(id, theme) == [id |-> id, settings |-> [theme |-> theme]]

\* The body GET /api/user/settings answers with for account i.
UserData(i) ==
    [id |-> users[i].id, username |-> users[i].username, email |-> users[i].email,
     settings |-> users[i].settings]

\* The handler of PUT /api/user/theme up to saveData, for the decoded token
\* payload user and the theme of the body ("" without one).
PutUserThemeHandler(c, user, theme) ==
    LET users_ == OrDefault(loadData(c), Array(<<>>))
    IN  IF theme = "" THEN Reply(400, "theme_required")
        ELSE IF ~IsArray(users_) THEN Reply(500, "failed")
        ELSE LET found == {i \in 1..Len(users_.items) :
                             users_.items[i].id = Field(user, "id")}
             IN  IF found = {} THEN Reply(404, "user_not_found")
                 ELSE LET index == First(found)
                          updated == [users_.items[index] EXCEPT !.settings.theme = theme]
                      IN  Save(200, Array([users_.items EXCEPT ![index] = updated]),
                               FALSE, {updated})

\* PUT /api/user/theme: authenticateToken, then the handler reads users.json
\* and answers, or goes on to save.
PutUserTheme(p, bearer, theme) ==
    /\ http[p].pc = "idle"
    /\ LET auth == authenticateToken(bearer)
       IN  IF auth # 200
           THEN /\ resp' = [FileResponse("putUserTheme", Reply(auth, "auth"))
                               EXCEPT !.token = bearer]
                /\ http' = http
           ELSE LET tok == CHOOSE t \in bearer : JwtVerify(t, JWT_SECRET, now)
                    out == PutUserThemeHandler(files["users.json"], tok.payload, theme)
                IN  IF out.write = {}
                    THEN /\ resp' = [FileResponse("putUserTheme", out)
                                        EXCEPT !.token = bearer]
                         /\ http' = http
                    ELSE /\ resp' = NoResp
                         /\ http' = [http EXCEPT ![p] =
                                        [pc |-> "saving", op |-> "putUserTheme",
                                         bearer |-> bearer, file |-> "users.json",
                                         out |-> out, saved |-> FALSE]]
    /\ UNCHANGED <<now, users, sessions, rq, rp, unused, firstMail, fresh>>
    /\ UNCHANGED <<files, stats, archives, job>>

\* What users.json, which no route creates, can hold when the server starts.
UsersContents ==
    {Missing, Array(<<>>), Array(<<UsersRecord({"1"}, "dark")>>),
     Array(<<UsersRecord({}, "dark")>>),
     Array(<<UsersRecord({"1"}, "dark"), UsersRecord({}, "dark")>>)}

InitTheme ==
    /\ InitAccounts
    /\ InitHandlers
    /\ \E c \in UsersContents :
          files = [g \in FileNames |-> IF g = "users.json" THEN c ELSE Missing]
    /\ stats = StatsMissing
    /\ archives = [y \in Years |-> Missing]

Themes == {"", "light", "dark"}

\* The self-service routes of the account, one request at a time.
NextTheme ==
    \/ TickUntil(MaxTimeFiles) /\ History(FALSE, FALSE, FALSE)
    \/ initializeDefaultUser /\ History(FALSE, FALSE, FALSE)
    \/ Login("admin", "admin123") /\ History(FALSE, FALSE, FALSE)
    \/ \E b \in Bearers : GetUserSettings(b) /\ History(FALSE, FALSE, FALSE)
    \/ \E tok \in sessions :
          PutUserSettings({tok}, "root", <<>>, "") /\ History(FALSE, FALSE, FALSE)
    \/ \E b \in Bearers, theme \in Themes : PutUserTheme(1, b, theme) /\ Ack(FALSE)
    \/ \E ok \in BOOLEAN : HttpSave(1, ok) /\ Ack(FALSE)

SpecTheme == InitTheme /\ [][NextTheme]_vars

\* C24: when PUT /api/user/theme is answered with success, the body that
\* GET /api/user/settings answers with for the same token carries the new
\* theme.
C24_ThemeReported ==
    [][(/\ http[1].pc = "saving" /\ http'[1].pc = "idle"
        /\ resp'.op = "putUserTheme" /\ resp'.status = 200) =>
          \A tok \in http[1].bearer, updated \in http[1].out.item :
             \A i \in FindById(tok.payload.userId) :
                UserData(i).settings.theme = updated.settings.theme]_vars

(* ------------------------- the default account ------------------------ *)
\* C25: a boot of the server inserts the default admin account exactly when
\* the collection is empty; a boot that finds an account inserts nothing and
\* changes nothing, and no step takes an account out of the collection or
\* gives it another id.
C25_DefaultAdmin ==
    [][/\ initializeDefaultUser =>
             IF Len(users) = 0
             THEN /\ Len(users') = 1
                  /\ users'[1].username = "admin"
                  /\ users'[1].email = DefaultEmail
                  /\ BcryptCompare("admin123", users'[1].password)
             ELSE users' = users
       /\ Len(users') >= Len(users)
       /\ \A i \in UserIdx : users'[i].id = users[i].id]_vars

\* The admin account has been renamed and given another password, and the
\* last step, at the instant of these changes, was a boot.
C25_Witness ==
    /\ Len(users) = 1
    /\ users[1].username = "root"
    /\ ~BcryptCompare("admin123", users[1].password)
    /\ sessions # {}
    /\ resp = NoResp
    /\ \E tok \in sessions : tok.iat = Sec(now)

(* --------------------------- JSON on the disk ------------------------- *)
\* The text of a file, for the round trip through JSON.stringify and
\* JSON.parse: its syntax tree, with the literal of each number as written,
\* and the white space between its tokens (layout).  A tree without a
\* non-empty array or object has no white space to differ in.
\* A value is null, a number (named by its String(n)), an array or an object
\* with the key "year".
Literals == {"0", "1", "1.0", "1e999"}
Layouts == {"indent2", "compact", "tabs"}

NullNode == [t |-> "null", n |-> "", elems |-> <<>>]
NumberNode(n) == [t |-> "number", n |-> n, elems |-> <<>>]
ArrayNode(elems) == [t |-> "array", n |-> "", elems |-> elems]
ObjectNode(elems) == [t |-> "object", n |-> "", elems |-> elems]

Text(layout, root) ==
    [kind |-> "text", layout |-> IF root.elems = <<>> THEN "" ELSE layout, root |-> root]

Scalars == {NullNode} \cup {NumberNode(l) : l \in Literals}
Tuples(S) == UNION {[1..k -> S] : k \in 0..MaxLen}
Roots ==
    Scalars \cup {ArrayNode(s) : s \in Tuples(Scalars)}
            \cup {ArrayNode(<<ObjectNode(<<x>>)>>) : x \in Scalars}
Texts == {Text(l, r) : l \in Layouts, r \in Roots}

\* The number a literal denotes: 1.0 is 1, and 1e999 is beyond the doubles
\* and read as Infinity.
NumberOf(literal) ==
    CASE literal = "1.0" -> "1"
      [] literal = "1e999" -> "Infinity"
      [] OTHER -> literal

\* JSON.parse of a well-formed text: the value of its tree.
RECURSIVE JSONparse(_)
JSONparse(node) ==
    IF node.t = "number" THEN NumberNode(NumberOf(node.n))
    ELSE [node EXCEPT !.elems = [i \in 1..Len(node.elems) |-> JSONparse(node.elems[i])]]

\* JSON.stringify(value, null, 2): the tree of the value, a number that is
\* not finite written as null.
RECURSIVE JSONstringify(_)
JSONstringify(value) ==
    IF value.t = "number"
    THEN IF value.n \in {"Infinity", "NaN"} THEN NullNode ELSE value
    ELSE [value EXCEPT !.elems = [i \in 1..Len(value.elems) |-> JSONstringify(value.elems[i])]]

\* A write that appends to the file.
writeFileAppending(c, text) == IF c.kind = "missing" THEN text ELSE Malformed

\* fs.writeFile(path, text): the file holds the text.
writeFile(c, text) == text

\* loadData on the text of a file: the parsed value, null when the file is
\* missing or JSON.parse throws.
loadDataText(c) == IF c.kind = "text" THEN JSONparse(c.root) ELSE NullNode

\* saveData on the text of a file; ok: fs.writeFile succeeds.
saveDataText(c, data, ok) ==
    IF ok THEN writeFile(c, Text("indent2", JSONstringify(data))) ELSE c

\* All the numbers of the value are finite.
RECURSIVE Finite(_)
Finite(value) ==
    /\ value.n \notin {"Infinity", "NaN"}
    /\ \A i \in 1..Len(value.elems) : Finite(value.elems[i])

\* loadData(name), at the start or after a saveData.
RoundLoad(p, name) ==
    /\ http[p].pc \in {"idle", "saved"}
    /\ http' = [http EXCEPT ![p] =
                  [pc |-> "loaded", file |-> name, value |-> loadDataText(files[name]),
                   saves |-> IF http[p].pc = "idle" THEN 0 ELSE http[p].saves,
                   written |-> IF http[p].pc = "idle" THEN 0 ELSE http[p].written]]
    /\ resp' = NoResp
    /\ UNCHANGED <<now, users, sessions, rq, rp, unused, firstMail, fresh>>
    /\ UNCHANGED <<files, stats, archives, job>>

\* saveData(name, v) of the value that was loaded.
RoundSave(p, ok) ==
    /\ http[p].pc = "loaded"
    /\ http[p].saves < MaxRounds
    /\ files' = [files EXCEPT ![http[p].file] = saveDataText(@, http[p].value, ok)]
    /\ http' = [http EXCEPT ![p] =
                  [pc |-> "saved", file |-> http[p].file, value |-> http[p].value,
                   ok |-> ok, saves |-> http[p].saves + 1,
                   written |-> http[p].written + (IF ok THEN 1 ELSE 0)]]
    /\ resp' = NoResp
    /\ UNCHANGED <<now, users, sessions, rq, rp, unused, firstMail, fresh>>
    /\ UNCHANGED <<stats, archives, job>>

\* A data file holds any text, or is missing or malformed.
InitText ==
    /\ InitAccounts
    /\ InitHandlers
    /\ \E c \in Texts \cup {Missing, Malformed} :
          files = [g \in FileNames |-> IF g = "projects.json" THEN c ELSE Missing]
    /\ stats = StatsMissing
    /\ archives = [y \in Years |-> Missing]

\* loadData and saveData in turn on one file.
NextText ==
    \/ RoundLoad(1, "projects.json") /\ Ack(FALSE)
    \/ \E ok \in BOOLEAN : RoundSave(1, ok) /\ Ack(FALSE)

SpecText == InitText /\ [][NextText]_vars

\* C26 as stated: loadData after saveData(name, v) returns v, and from the
\* second saveData on the file stays as it is.
C26_Original ==
    [][/\ (http[1].pc = "saved" /\ http'[1].pc = "loaded") =>
             http'[1].value = http[1].value
       /\ (http[1].pc = "loaded" /\ http'[1].pc = "saved" /\ http[1].saves >= 1) =>
             files' = files]_vars

\* C26: loadData after a saveData(name, v) that wrote the file returns v when
\* all the numbers of v are finite, and once a saveData has written the file
\* every further saveData of what loadData returns leaves the file as it is,
\* byte for byte.
C26_RoundTrip ==
    [][/\ (/\ http[1].pc = "saved" /\ http'[1].pc = "loaded"
           /\ http[1].ok /\ Finite(http[1].value)) =>
             http'[1].value = http[1].value
       /\ (http[1].pc = "loaded" /\ http'[1].pc = "saved" /\ http[1].written >= 1) =>
             files' = files]_vars

\* A file written in another layout, with a number written 1.0, has been
\* loaded and saved twice and loaded again.
C26_Witness ==
    /\ http[1].pc = "loaded"
    /\ http[1].written = 2
    /\ http[1].value = ArrayNode(<<NumberNode("1")>>)
    /\ files["projects.json"] = Text("indent2", ArrayNode(<<NumberNode("1")>>))

(* --------------------- the recipient of the reset mail ---------------- *)
\* C27: when request-password-reset has stored a token on an account and the
\* reset mail is sent, the address the mail goes to equals, ignoring case, the
\* stored email of that account.
C27_RecipientIsAccount ==
    [][Delivered => EqualsIgnoringCase(rq.to, users[rq.user].email)]_vars

(* ----------------------- the stored hash of the token ----------------- *)
\* What the match loop and the expiry check of reset-password can answer for
\* the candidate documents and the presented token.
ResetOutcomes(cands, token) ==
    IF Matching(cands, token) = {} THEN {"invalid_or_expired"}
    ELSE {IF Expired(cands[m]) THEN "token_expired" ELSE "accepted" :
             m \in Matching(cands, token)}

\* The hashes of tokens that the presented characters do not belong to.
ForeignHashes(token) ==
    {BcryptHash(t) :
        t \in {s \in {ResetToken([id |-> [ts |-> ts, hi |-> hi, lo |-> 0],
                                  email |-> DefaultEmail], now) :
                         ts \in 0..1, hi \in 0..1} :
                  Substring64(s) # token}}

\* C28: the answer of reset-password depends on the hash stored as
\* resetToken: a presented token that is accepted would not be accepted if
\* the candidate document it matches held the hash of a token it does not
\* belong to (same account id, email and expiry).
C28_StoredHashDecides ==
    \A p \in Procs :
       (rp[p].pc = "found" /\ "accepted" \in ResetOutcomes(rp[p].users, rp[p].token)) =>
          \A m \in Matching(rp[p].users, rp[p].token), h \in ForeignHashes(rp[p].token) :
             "accepted" \notin
                ResetOutcomes([rp[p].users EXCEPT ![m].resetToken = {h}], rp[p].token)

(* -------------------------- ids and request bodies -------------------- *)
\* The routes that spread the request body into the record, one request at a
\* time, with and without an id in the body.
NextBodies ==
    \/ TickUntil(MaxTimeFiles) /\ History(FALSE, FALSE, FALSE)
    \/ initializeDefaultUser /\ History(FALSE, FALSE, FALSE)
    \/ Login("admin", "admin123") /\ History(FALSE, FALSE, FALSE)
    \/ \E op \in {"postTechnologies", "postSkills", "postMessages"}, tok \in sessions,
          body \in BodyIds :
          Focused(FileOf(op)) /\ HttpStart(1, op, {tok}, 0, body, TRUE) /\ Ack(FALSE)
    \/ \E op \in {"putTechnologies", "putSkills"}, tok \in sessions, id \in UrlIds \cup {7},
          body \in BodyIds :
          Focused(FileOf(op)) /\ HttpStart(1, op, {tok}, id, body, TRUE) /\ Ack(FALSE)
    \/ HttpSave(1, TRUE) /\ Ack(FALSE)
    \/ \E ok \in BOOLEAN : HttpMail(1, ok) /\ Ack(FALSE)

SpecBodies == InitStored /\ [][NextBodies]_vars

\* C29: the record a POST creates has the id the server generated from the
\* clock, and a PUT leaves the id of the record it updates and the number of
\* records as they are, whatever id the request body carries.
C29_ServerIds ==
    [][(http[1].pc = "idle" /\ http'[1].pc = "saving") =>
          /\ http'[1].op \in Creates =>
                \A record \in http'[1].out.item : record.id = now
          /\ http'[1].op \in Updates =>
                \A content \in http'[1].out.write :
                   /\ Len(content.items) = Len(files[http'[1].file].items)
                   /\ \A i \in 1..Len(content.items) :
                         content.items[i].id = files[http'[1].file].items[i].id]_vars

(* ------------------------- conservation of messages ------------------- *)
\* C30: at the end of a run of the archival job with no concurrent writer,
\* every message the run loaded from messages.json is in exactly one of
\* messages.json and the archive of the year, also when one of the two
\* saves of the run failed.
C30_Conserved ==
    [][(job.pc = "saving" /\ job'.pc = "idle") =>
          \A m \in Range(job.messages) :
             (m \in Range(files'["messages.json"].items)) #
                (m \in Range(archives'[job.year].items))]_vars

====
